---- MODULE Spec2Model ----
(***************************************************************************)
(* A model of async_python_runner: the two supervisors                     *)
(*   AsyncRunner         (src/src/async_python_runner.py)                  *)
(*   AsyncProcessRunner  (src/src/aync_process_runner.py)                  *)
(* and the two handle classes they drive                                   *)
(*   CustomProcess       (src/src/models/custom_process.py)                *)
(*   Custom_Process      (src/src/aync_process_runner.py)                  *)
(* together with the discovery step that feeds them.                       *)
(*                                                                         *)
(* One behaviour is one use of the package, chosen in Init by `entry`:     *)
(*   "AsyncRunner"         one call of AsyncRunner.main                    *)
(*   "AsyncProcessRunner"  one call of AsyncProcessRunner.main under       *)
(*                         asyncio.run (the event loop is modelled as its  *)
(*                         FIFO ready queue plus the set of sleeping tasks)*)
(*   "CustomProcess" / "Custom_Process"                                    *)
(*                         a caller holding one handle of that class and   *)
(*                         calling start() and join() in any order         *)
(* The spawned OS processes run on their own and exit with any exit code.  *)
(***************************************************************************)
EXTENDS Integers, Sequences, FiniteSets, TLC

VARIABLES
    entry,      \* which entry point this behaviour exercises
    listing,    \* the scanned directory: [found, files], files in os.listdir order
    processes,  \* the registry: sequence of handles (self.processes / processes)
    proc,       \* proc[i]: the multiprocessing.Process owned by processes[i]
    pc,         \* position of the supervisor's main (or of the handle's caller)
    idx,        \* index of the list comprehension of AsyncRunner.main
    outcome,    \* how main ended: "running", "returned", "raised", "exit(-1)", "exit()"
    ready,      \* asyncio event loop: FIFO queue of callbacks ready to run
    sleeping,   \* asyncio event loop: the timers of sleeping check_processes
                \* tasks, [i, secs], in the order they were set
    task,       \* task.start[i], task.check[i]: the tasks gathered by
                \* AsyncProcessRunner.main (start_process, check_processes)
    gather,     \* the future returned by asyncio.gather: [done, exc, nfinished]
    logged,     \* logged[i]: outcome lines check_processes logged for handle i
    clock,      \* the wall clock read by datetime.now()
    calls,      \* number of handle calls made by the handle's caller
    last        \* the last start()/join() call: [op, i, pre, exc]

vars == <<entry, listing, processes, proc, pc, idx, outcome, ready, sleeping,
          task, gather, logged, clock, calls, last>>

----------------------------------------------------------------------------
(* Bounds of the model.                                                    *)

\* longest directory listing
MaxListing == 4
\* largest value of the wall clock
MaxClock == 1
\* most start()/join() calls a caller makes on one handle
MaxCalls == 4
\* most outcome lines counted per handle
MaxLogged == 2

----------------------------------------------------------------------------
(* ProcessStatus (models/process_status.py) and the status strings of      *)
(* Custom_Process.                                                         *)

NOT_STARTED == 0
RUNNING == 1
COMPLETED == 2
FAILED == 3
KILLED == 4

\* the terminal statuses of each handle class
Terminal(cls) ==
    IF cls = "CustomProcess" THEN {COMPLETED, FAILED, KILLED}
    ELSE {"Completed", "Failed", "Killed"}

----------------------------------------------------------------------------
(* File names are sequences of characters, so that endswith and slicing    *)
(* are computed and not assumed.                                           *)

PY == <<".", "p", "y">>
INIT == <<"_", "_", "i", "n", "i", "t", "_", "_">>
INIT_PY == INIT \o PY
PYCACHE == <<"_", "_", "p", "y", "c", "a", "c", "h", "e", "_", "_">>

\* AsyncRunner.FILES_TO_IGNORE
FILES_TO_IGNORE == <<INIT_PY, PYCACHE, INIT>>

\* str.endswith
endswith(s, suffix) ==
    /\ Len(s) >= Len(suffix)
    /\ SubSeq(s, Len(s) - Len(suffix) + 1, Len(s)) = suffix

\* s[:-3]
StripExt(s) == IF Len(s) >= 3 THEN SubSeq(s, 1, Len(s) - 3) ELSE <<>>

\* x in lst
InList(x, lst) == \E k \in 1..Len(lst) : lst[k] = x

\* list.remove(x): drops the first occurrence of x
ListRemove(lst, x) ==
    LET k == CHOOSE j \in 1..Len(lst) :
                 lst[j] = x /\ \A m \in 1..(j - 1) : lst[m] # x
    IN  SubSeq(lst, 1, k - 1) \o SubSeq(lst, k + 1, Len(lst))

\* a directory entry: its name, whether it is a regular file (else a
\* directory), whether importing it succeeds, whether it has the main method
DirEntry(n, f, imp, m) == [name |-> n, isfile |-> f, importable |-> imp, has_main |-> m]

\* what the directory scanned by each runner may hold.  AsyncRunner scans the
\* sub-process directory: workload files, the package marker, the cache
\* directory.  AsyncProcessRunner scans BASE_DIR: workload packages, a
\* directory that does not import, a plain file.
Entries(e) ==
    IF e = "AsyncRunner"
    THEN { DirEntry(<<"a">> \o PY, TRUE, TRUE, TRUE),
           DirEntry(<<"b">> \o PY, TRUE, TRUE, TRUE),
           DirEntry(<<"c">> \o PY, TRUE, TRUE, TRUE),
           DirEntry(INIT_PY, TRUE, TRUE, FALSE),
           DirEntry(PYCACHE, FALSE, FALSE, FALSE) }
    ELSE { DirEntry(<<"d">>, FALSE, TRUE, TRUE),
           DirEntry(<<"e">>, FALSE, TRUE, TRUE),
           DirEntry(PYCACHE, FALSE, FALSE, FALSE),
           DirEntry(<<"a">> \o PY, TRUE, TRUE, TRUE) }

\* os.listdir returns every entry once, in arbitrary order
Listings(e) ==
    { l \in UNION { [1..n -> Entries(e)] : n \in 0..MaxListing } :
        \A j, k \in 1..Len(l) : j # k => l[j] # l[k] }

\* the name of the scanned sub-directory, relative to ROOT_DIR
SUB_PROCESS_DIR == <<"s">>

----------------------------------------------------------------------------
(* Discovery.                                                              *)

\* FileStatus.NOT_FOUND.value
NOT_FOUND == <<"n", "o", "t", " ", "f", "o", "u", "n", "d">>

IsPyFile(e) == e.isfile /\ endswith(e.name, PY)

\* helpers/directory_searcher.py get_files: the names of the regular files of
\* the target directory that end in ".py", and the module path
get_files(l) ==
    IF ~l.found
    THEN [files |-> <<>>, path |-> <<NOT_FOUND>>]
    ELSE LET kept == SelectSeq(l.files, IsPyFile)
         IN  [files |-> [k \in 1..Len(kept) |-> kept[k].name],
              path  |-> <<SUB_PROCESS_DIR>>]

\* (mutation of the first loop: the test against FILES_TO_IGNORE is missing)
RECURSIVE FilterLoop_NoIgnore(_, _, _)
FilterLoop_NoIgnore(list_of_modules, k, updated_modules) ==
    IF k > Len(list_of_modules) THEN updated_modules
    ELSE IF endswith(list_of_modules[k], PY)
    THEN FilterLoop_NoIgnore(list_of_modules, k + 1,
                             Append(updated_modules, StripExt(list_of_modules[k])))
    ELSE FilterLoop_NoIgnore(list_of_modules, k + 1, updated_modules)

\* the first loop of AsyncRunner.get_sub_processes.  The for statement walks
\* list_of_modules by position (k, 1-based here) while the body removes the
\* ignored name from that same list.
RECURSIVE FilterLoop(_, _, _)
FilterLoop(list_of_modules, k, updated_modules) ==
    IF k > Len(list_of_modules) THEN updated_modules
    ELSE LET module_names == list_of_modules[k]
         IN  IF InList(module_names, FILES_TO_IGNORE)
             THEN FilterLoop(ListRemove(list_of_modules, module_names), k + 1,
                             updated_modules)
             ELSE IF endswith(module_names, PY)
             THEN FilterLoop(list_of_modules, k + 1,
                             Append(updated_modules, StripExt(module_names)))
             ELSE FilterLoop(list_of_modules, k + 1, updated_modules)

\* ".".join(parts)
RECURSIVE JoinDot(_)
JoinDot(parts) ==
    IF Len(parts) = 0 THEN <<>>
    ELSE IF Len(parts) = 1 THEN parts[1]
    ELSE parts[1] \o <<".">> \o JoinDot(Tail(parts))

\* AsyncRunner.get_sub_processes: the imported modules, each known by its
\* __name__ (the dotted module path)
get_sub_processes(l) ==
    LET found == get_files(l)
        updated_modules == FilterLoop(found.files, 1, <<>>)
    IN  [k \in 1..Len(updated_modules) |->
            [name |-> JoinDot(found.path \o <<updated_modules[k]>>)]]

\* AsyncProcessRunner.get_sub_processes: every directory of BASE_DIR that
\* imports and has the main method
IsPackage(e) == ~e.isfile /\ e.importable /\ e.has_main

APR_get_sub_processes(l) ==
    LET kept == SelectSeq(l.files, IsPackage)
    IN  [k \in 1..Len(kept) |-> [name |-> kept[k].name]]

----------------------------------------------------------------------------
(* multiprocessing.Process, as the handles use it.                         *)

\* exit codes of a workload process: success, failure (also an entry point
\* that raised), killed by SIGTERM
EXIT_OK == 0
EXIT_FAIL == 1
EXIT_SIGTERM == -15
ExitCodes == {EXIT_OK, EXIT_FAIL, EXIT_SIGTERM}

\* multiprocessing.Process(target=...); `order` is the rank of the process's
\* exit among the exits of the run (0 while it has not exited)
NewProcess == [state |-> "initial", exitcode |-> EXIT_OK, order |-> 0]

\* Process.start(): refuses a second start; the OS may refuse to spawn (~ok)
Process_start(p, ok) ==
    IF p.state # "initial" THEN [p |-> p, exc |-> "AssertionError"]
    ELSE IF ~ok THEN [p |-> p, exc |-> "OSError"]
    ELSE [p |-> [p EXCEPT !.state = "started"], exc |-> "None"]

\* Process.join() returns at once (raising) on a process that was never
\* started, and otherwise when the process has exited
JoinCanReturn(p) == p.state # "started"

----------------------------------------------------------------------------
(* CustomProcess (models/custom_process.py).                               *)

\* CustomProcess.__init__
CustomProcess_init(name) == [name |-> name, status |-> NOT_STARTED]

\* (mutation of CustomProcess.start: the status is not set)
CustomProcess_start_NoStatus(h, p, ok) ==
    LET r == Process_start(p, ok)
    IN  [h |-> h, p |-> r.p, exc |-> r.exc]

\* CustomProcess.start
CustomProcess_start(h, p, ok) ==
    LET r == Process_start(p, ok)
    IN  [h |-> [h EXCEPT !.status = RUNNING], p |-> r.p, exc |-> r.exc]

\* (mutation of CustomProcess.join: the status is not set)
CustomProcess_join_NoStatus(h, p) ==
    IF p.state = "initial" THEN [h |-> h, p |-> p, exc |-> "AssertionError"]
    ELSE [h |-> h, p |-> p, exc |-> "None"]

\* (mutation of CustomProcess.join: a failed workload makes join raise)
CustomProcess_join_RaiseOnFailure(h, p) ==
    IF p.state = "initial" THEN [h |-> h, p |-> p, exc |-> "AssertionError"]
    ELSE IF p.exitcode # EXIT_OK THEN [h |-> h, p |-> p, exc |-> "RuntimeError"]
    ELSE [h |-> [h EXCEPT !.status = COMPLETED], p |-> p, exc |-> "None"]

\* CustomProcess.join, at the moment process.join() returns or raises
CustomProcess_join(h, p) ==
    IF p.state = "initial" THEN [h |-> h, p |-> p, exc |-> "AssertionError"]
    ELSE [h |-> [h EXCEPT !.status = COMPLETED], p |-> p, exc |-> "None"]

----------------------------------------------------------------------------
(* Custom_Process (aync_process_runner.py).                                *)

\* the default arguments datetime.now() of __init__ are evaluated once, when
\* the class is defined: every handle is built with that instant
T0 == 0

\* Custom_Process.__init__
Custom_Process_init(name) ==
    [name |-> name, status |-> "Not Started", start_time |-> T0,
     end_time |-> T0, run_duration |-> 0]

\* Custom_Process.start
Custom_Process_start(h, p, ok, now) ==
    LET r == Process_start(p, ok)
    IN  [h |-> [h EXCEPT !.start_time = now, !.status = "Running"],
         p |-> r.p, exc |-> r.exc]

\* (mutation of Custom_Process.join: the operands of the duration swapped)
Custom_Process_join_Swapped(h, p, now) ==
    IF p.state = "initial" THEN [h |-> h, p |-> p, exc |-> "AssertionError"]
    ELSE [h |-> [h EXCEPT !.end_time = now,
                          !.run_duration = h.start_time - now,
                          !.status = "Completed"],
          p |-> p, exc |-> "None"]

\* Custom_Process.join, at the moment process.join() returns or raises
Custom_Process_join(h, p, now) ==
    IF p.state = "initial" THEN [h |-> h, p |-> p, exc |-> "AssertionError"]
    ELSE [h |-> [h EXCEPT !.end_time = now,
                          !.run_duration = now - h.start_time,
                          !.status = "Completed"],
          p |-> p, exc |-> "None"]

\* the instants datetime.now() can return: the clock does not go backwards
Now == { t \in clock..(clock + 1) : t <= MaxClock }

\* the handle class each entry point uses
HandleClass ==
    IF entry \in {"AsyncRunner", "CustomProcess"} THEN "CustomProcess"
    ELSE "Custom_Process"

\* the instants a start()/join() of the class reads (CustomProcess reads none)
NowOf(cls) == IF cls = "CustomProcess" THEN {clock} ELSE Now

handle_init(cls, name) ==
    IF cls = "CustomProcess" THEN CustomProcess_init(name)
    ELSE Custom_Process_init(name)

handle_start(cls, h, p, ok, now) ==
    IF cls = "CustomProcess" THEN CustomProcess_start(h, p, ok)
    ELSE Custom_Process_start(h, p, ok, now)

handle_join(cls, h, p, now) ==
    IF cls = "CustomProcess" THEN CustomProcess_join(h, p)
    ELSE Custom_Process_join(h, p, now)

\* the record of a call: which operation, on which handle, the status and the
\* process state it found, and the exception it raised ("None" if it returned)
Call(op, i, r) ==
    [op |-> op, i |-> i, pre |-> processes[i].status,
     pre_state |-> proc[i].state, post |-> r.h.status, exc |-> r.exc]

\* no call made yet
NoCall(cls) ==
    [op |-> "none", i |-> 0, pre |-> handle_init(cls, <<>>).status,
     pre_state |-> "initial", post |-> handle_init(cls, <<>>).status,
     exc |-> "None"]

\* the registry and the processes after call result r on handle i
Apply(i, r) ==
    /\ processes' = [processes EXCEPT ![i] = r.h]
    /\ proc' = [proc EXCEPT ![i] = r.p]

----------------------------------------------------------------------------
(* Initial states.                                                         *)

Runners == {"AsyncRunner", "AsyncProcessRunner"}
HandleCallers == {"CustomProcess", "Custom_Process"}

\* the name test_custom_process gives its handle
TEST_PROCESS == <<"t">>

Init ==
    /\ entry \in Runners \cup HandleCallers
    /\ IF entry \in Runners
       THEN /\ listing \in
                 { [found |-> TRUE, files |-> l] : l \in Listings(entry) } \cup
                 { [found |-> FALSE, files |-> <<>>] : x \in {entry} \cap {"AsyncRunner"} }
            /\ processes = <<>>
            /\ proc = <<>>
            /\ logged = <<>>
            /\ pc = "create"
       ELSE /\ listing = [found |-> FALSE, files |-> <<>>]
            /\ processes = <<handle_init(HandleClass, TEST_PROCESS)>>
            /\ proc = <<NewProcess>>
            /\ logged = <<0>>
            /\ pc = "caller"
    /\ idx = 0
    /\ outcome = "running"
    /\ ready = <<>>
    /\ sleeping = <<>>
    /\ task = [start |-> <<>>,
               check |-> IF entry = "Custom_Process" THEN <<"pending">> ELSE <<>>]
    /\ gather = [done |-> FALSE, exc |-> FALSE, nfinished |-> 0]
    /\ clock = T0
    /\ calls = 0
    /\ last = NoCall(HandleClass)

----------------------------------------------------------------------------
(* The workload processes.                                                 *)

\* a running workload process exits: its entry point returned (EXIT_OK),
\* raised or exited non-zero (EXIT_FAIL), or it was killed (EXIT_SIGTERM)
ProcessExit(i, code) ==
    /\ i \in 1..Len(proc)
    /\ proc[i].state = "started"
    /\ proc' = [proc EXCEPT ![i] =
                   [state |-> "stopped", exitcode |-> code,
                    order |-> 1 + Cardinality({j \in 1..Len(proc) :
                                                  proc[j].state = "stopped"})]]
    /\ UNCHANGED <<entry, listing, processes, pc, idx, outcome, ready, sleeping,
                   task, gather, logged, clock, calls, last>>

----------------------------------------------------------------------------
(* AsyncRunner.main                                                        *)

\* (mutation of create_sub_processes: the handles built in reverse order)
create_sub_processes_Reversed(l) ==
    LET modules == get_sub_processes(l)
    IN  [k \in 1..Len(modules) |->
            CustomProcess_init(modules[Len(modules) + 1 - k].name)]

\* AsyncRunner.create_sub_processes: one CustomProcess per discovered module
create_sub_processes(l) ==
    LET modules == get_sub_processes(l)
    IN  [k \in 1..Len(modules) |-> CustomProcess_init(modules[k].name)]

\* main, line 101; the list comprehensions of lines 105 come next
CreateSubProcesses ==
    /\ entry = "AsyncRunner"
    /\ pc = "create"
    /\ processes' = create_sub_processes(listing)
    /\ proc' = [k \in 1..Len(processes') |-> NewProcess]
    /\ logged' = [k \in 1..Len(processes') |-> 0]
    /\ IF Len(processes') = 0
       THEN pc' = "gather" /\ idx' = 0
       ELSE pc' = "start" /\ idx' = 1
    /\ UNCHANGED <<entry, listing, outcome, ready, sleeping, task, gather,
                   clock, calls, last>>

\* [p.start() for p in self.processes]: one call per step, in registry order;
\* an exception leaves main
StartAll(ok) ==
    /\ entry = "AsyncRunner"
    /\ pc = "start"
    /\ LET r == CustomProcess_start(processes[idx], proc[idx], ok)
       IN  /\ Apply(idx, r)
           /\ last' = Call("start", idx, r)
           /\ IF r.exc # "None"
              THEN pc' = "done" /\ outcome' = "raised" /\ idx' = idx
              ELSE /\ outcome' = outcome
                   /\ IF idx = Len(processes)
                      THEN pc' = "join" /\ idx' = 1
                      ELSE pc' = "start" /\ idx' = idx + 1
    /\ UNCHANGED <<entry, listing, ready, sleeping, task, gather, logged,
                   clock, calls>>

\* (mutation of JoinAll: the handles are joined from the last to the first)
JoinAll_Reversed ==
    /\ entry = "AsyncRunner"
    /\ pc = "join"
    /\ LET k == Len(processes) + 1 - idx
       IN  /\ JoinCanReturn(proc[k])
           /\ LET r == CustomProcess_join(processes[k], proc[k])
              IN  /\ Apply(k, r)
                  /\ last' = Call("join", k, r)
                  /\ IF r.exc # "None"
                     THEN pc' = "done" /\ outcome' = "raised" /\ idx' = idx
                     ELSE /\ outcome' = outcome
                          /\ IF idx = Len(processes)
                             THEN pc' = "gather" /\ idx' = 0
                             ELSE pc' = "join" /\ idx' = idx + 1
    /\ UNCHANGED <<entry, listing, ready, sleeping, task, gather, logged,
                   clock, calls>>

\* [p.join() for p in self.processes]: each call blocks main until that
\* handle's process has exited
JoinAll ==
    /\ entry = "AsyncRunner"
    /\ pc = "join"
    /\ JoinCanReturn(proc[idx])
    /\ LET r == CustomProcess_join(processes[idx], proc[idx])
       IN  /\ Apply(idx, r)
           /\ last' = Call("join", idx, r)
           /\ IF r.exc # "None"
              THEN pc' = "done" /\ outcome' = "raised" /\ idx' = idx
              ELSE /\ outcome' = outcome
                   /\ IF idx = Len(processes)
                      THEN pc' = "gather" /\ idx' = 0
                      ELSE pc' = "join" /\ idx' = idx + 1
    /\ UNCHANGED <<entry, listing, ready, sleeping, task, gather, logged,
                   clock, calls>>

\* every start() and join() returned None, so tasks is empty:
\* await asyncio.gather() completes at once and main returns
GatherAndReturn ==
    /\ entry = "AsyncRunner"
    /\ pc = "gather"
    /\ pc' = "done"
    /\ outcome' = "returned"
    /\ UNCHANGED <<entry, listing, processes, proc, idx, ready, sleeping, task,
                   gather, logged, clock, calls, last>>

----------------------------------------------------------------------------
(* AsyncProcessRunner.main under asyncio.run.                              *)
(* asyncio runs the callbacks of `ready` first in, first out; a task that  *)
(* awaits sleep(0) goes to the back of the queue, a task that awaits a     *)
(* longer sleep waits in `sleeping` until its timer fires.                 *)

Item(kind, i) == [kind |-> kind, i |-> i]

\* AsyncProcessRunner.create_sub_processes
APR_create_sub_processes(sub_processes) ==
    [k \in 1..Len(sub_processes) |-> Custom_Process_init(sub_processes[k].name)]

\* (mutation of the task list: start and check coroutines interleaved)
GatherTasks_Interleaved(n) ==
    [k \in 1..(2 * n) |->
        IF k % 2 = 1 THEN Item("start", (k + 1) \div 2)
        ELSE Item("check", k \div 2)]

\* the tasks list of main, in the order asyncio.gather schedules it: every
\* start_process coroutine, then every check_processes coroutine
GatherTasks(n) ==
    [k \in 1..(2 * n) |->
        IF k <= n THEN Item("start", k) ELSE Item("check", k - n)]

\* main up to its await: discovery, the empty check, the handles, and
\* asyncio.gather, which schedules one task per coroutine in argument order
APR_main ==
    /\ entry = "AsyncProcessRunner"
    /\ pc = "create"
    /\ LET sub_processes == APR_get_sub_processes(listing)
           n == Len(sub_processes)
       IN  IF n = 0
           THEN /\ pc' = "done"
                /\ outcome' = "exit(-1)"
                /\ UNCHANGED <<processes, proc, logged, ready, task>>
           ELSE /\ processes' = APR_create_sub_processes(sub_processes)
                /\ proc' = [k \in 1..n |-> NewProcess]
                /\ logged' = [k \in 1..n |-> 0]
                /\ ready' = GatherTasks(n)
                /\ task' = [start |-> [k \in 1..n |-> "created"],
                            check |-> [k \in 1..n |-> "pending"]]
                /\ pc' = "gather"
                /\ outcome' = outcome
    /\ UNCHANGED <<entry, listing, idx, sleeping, gather, clock, calls, last>>

\* start_process up to its await: custom_process.start(), the log line, and
\* asyncio.sleep(0); an exception of start() ends the task
APR_start_process(ok, now) ==
    /\ entry = "AsyncProcessRunner"
    /\ pc = "gather"
    /\ ready # <<>>
    /\ Head(ready).kind = "start"
    /\ LET i == Head(ready).i
           r == Custom_Process_start(processes[i], proc[i], ok, now)
       IN  /\ task.start[i] = "created"
           /\ Apply(i, r)
           /\ last' = Call("start", i, r)
           /\ clock' = now
           /\ IF r.exc = "None"
              THEN /\ task' = [task EXCEPT !.start[i] = "sleep0"]
                   /\ ready' = Append(Tail(ready), Item("start", i))
              ELSE /\ task' = [task EXCEPT !.start[i] = "raised"]
                   /\ ready' = Append(Tail(ready), Item("done_cb", i))
    /\ UNCHANGED <<entry, listing, pc, idx, outcome, sleeping, gather, logged,
                   calls>>

\* start_process after asyncio.sleep(0): the coroutine returns
APR_start_process_return ==
    /\ entry = "AsyncProcessRunner"
    /\ pc = "gather"
    /\ ready # <<>>
    /\ Head(ready).kind = "start"
    /\ LET i == Head(ready).i
       IN  /\ task.start[i] = "sleep0"
           /\ task' = [task EXCEPT !.start[i] = "finished"]
           /\ ready' = Append(Tail(ready), Item("done_cb", i))
    /\ UNCHANGED <<entry, listing, processes, proc, pc, idx, outcome, sleeping,
                   gather, logged, clock, calls, last>>

\* the callback asyncio.gather hangs on every child: the first exception of
\* a child completes the gather future with it; otherwise the future
\* completes when all 2n children have finished.  Completion wakes main.
APR_gather_done_callback ==
    /\ entry = "AsyncProcessRunner"
    /\ pc = "gather"
    /\ ready # <<>>
    /\ Head(ready).kind = "done_cb"
    /\ LET i == Head(ready).i
           n == Len(processes)
       IN  IF gather.done
           THEN /\ gather' = gather
                /\ ready' = Tail(ready)
           ELSE IF task.start[i] = "raised"
           THEN /\ gather' = [gather EXCEPT !.done = TRUE, !.exc = TRUE]
                /\ ready' = Append(Tail(ready), Item("main", 0))
           ELSE /\ gather' = [gather EXCEPT !.nfinished = @ + 1,
                                            !.done = (gather.nfinished + 1 = 2 * n)]
                /\ ready' = IF gather.nfinished + 1 = 2 * n
                            THEN Append(Tail(ready), Item("main", 0))
                            ELSE Tail(ready)
    /\ UNCHANGED <<entry, listing, processes, proc, pc, idx, outcome, sleeping,
                   task, logged, clock, calls, last>>

\* asyncio.run cancels every task still pending when main ends
CancelAll(t) ==
    [start |-> [k \in 1..Len(t.start) |->
                   IF t.start[k] \in {"created", "sleep0"} THEN "cancelled"
                   ELSE t.start[k]],
     check |-> [k \in 1..Len(t.check) |->
                   IF t.check[k] = "pending" THEN "cancelled" ELSE t.check[k]]]

\* main after its await: the exception of gather is caught, printed, and
\* exit() ends the run; with a result main returns
APR_main_resume ==
    /\ entry = "AsyncProcessRunner"
    /\ pc = "gather"
    /\ ready # <<>>
    /\ Head(ready).kind = "main"
    /\ pc' = "done"
    /\ outcome' = IF gather.exc THEN "exit()" ELSE "returned"
    /\ task' = CancelAll(task)
    /\ ready' = <<>>
    /\ sleeping' = <<>>
    /\ UNCHANGED <<entry, listing, processes, proc, idx, gather, logged, clock,
                   calls, last>>

\* the two sleeps of check_processes, in seconds
SLEEP_RUNNING == 60
SLEEP_POLL == 1

\* one pass of the while True loop of check_processes over handle h, from the
\* test of the status to the await: the number of outcome lines it logs
\* ("completed in", "failed", "was killed") ...
OutcomeLines(h) ==
    IF h.status = "Running" THEN 0
    ELSE IF h.status \in {"Completed", "Failed", "Killed"} THEN 1
    ELSE 0

\* ... the sleep it awaits ...
SleepOf(h) == IF h.status = "Running" THEN SLEEP_RUNNING ELSE SLEEP_POLL

\* (mutation of check_processes: the loop is left while the handle runs)
check_processes_ReturnsWhenRunning(h, t) ==
    IF h.status = "Running" THEN "finished" ELSE t

\* ... and the state of its task at that await: every path of the loop body
\* ends in a sleep inside while True, none returns or breaks
check_processes(h, t) == t

CountLogged(i) ==
    logged' = [logged EXCEPT ![i] =
                  IF @ + OutcomeLines(processes[i]) > MaxLogged THEN MaxLogged
                  ELSE @ + OutcomeLines(processes[i])]

\* a check_processes task runs one pass and sleeps
APR_check_processes ==
    /\ entry = "AsyncProcessRunner"
    /\ pc = "gather"
    /\ ready # <<>>
    /\ Head(ready).kind = "check"
    /\ LET i == Head(ready).i
       IN  /\ CountLogged(i)
           /\ task' = [task EXCEPT !.check[i] = check_processes(processes[i], @)]
           /\ ready' = Tail(ready)
           /\ sleeping' = Append(sleeping, [i |-> i, secs |-> SleepOf(processes[i])])
    /\ UNCHANGED <<entry, listing, processes, proc, pc, idx, outcome, gather,
                   clock, calls, last>>

\* the timer at position k fires: timers fire by deadline, so never before a
\* timer that was set earlier for a sleep no longer than its own
APR_timer(k) ==
    /\ entry = "AsyncProcessRunner"
    /\ pc = "gather"
    /\ k \in 1..Len(sleeping)
    /\ \A j \in 1..(k - 1) : sleeping[j].secs > sleeping[k].secs
    /\ sleeping' = SubSeq(sleeping, 1, k - 1) \o SubSeq(sleeping, k + 1, Len(sleeping))
    /\ ready' = Append(ready, Item("check", sleeping[k].i))
    /\ UNCHANGED <<entry, listing, processes, proc, pc, idx, outcome, task,
                   gather, logged, clock, calls, last>>

----------------------------------------------------------------------------
(* A caller holding one handle (as test_custom_process does), free to call *)
(* start() and join() in any order; a Custom_Process handle may also be    *)
(* watched by a check_processes task.                                      *)

CallStart(ok, now) ==
    /\ entry \in HandleCallers
    /\ calls < MaxCalls
    /\ LET r == handle_start(HandleClass, processes[1], proc[1], ok, now)
       IN  /\ Apply(1, r)
           /\ last' = Call("start", 1, r)
    /\ clock' = now
    /\ calls' = calls + 1
    /\ UNCHANGED <<entry, listing, pc, idx, outcome, ready, sleeping, task,
                   gather, logged>>

\* join() blocks its caller while the process runs
CallJoin(now) ==
    /\ entry \in HandleCallers
    /\ calls < MaxCalls
    /\ JoinCanReturn(proc[1])
    /\ LET r == handle_join(HandleClass, processes[1], proc[1], now)
       IN  /\ Apply(1, r)
           /\ last' = Call("join", 1, r)
           /\ clock' = IF r.exc = "None" THEN now ELSE clock
    /\ calls' = calls + 1
    /\ UNCHANGED <<entry, listing, pc, idx, outcome, ready, sleeping, task,
                   gather, logged>>

\* one pass of a check_processes task over the caller's Custom_Process handle
WatchHandle ==
    /\ entry = "Custom_Process"
    /\ task.check[1] = "pending"
    /\ CountLogged(1)
    /\ task' = [task EXCEPT !.check[1] = check_processes(processes[1], @)]
    /\ UNCHANGED <<entry, listing, processes, proc, pc, idx, outcome, ready,
                   sleeping, gather, clock, calls, last>>

----------------------------------------------------------------------------

Next ==
    \/ \E i \in 1..MaxListing, code \in ExitCodes : ProcessExit(i, code)
    \/ CreateSubProcesses
    \/ \E ok \in BOOLEAN : StartAll(ok)
    \/ JoinAll
    \/ GatherAndReturn
    \/ APR_main
    \/ \E ok \in BOOLEAN, now \in Now : APR_start_process(ok, now)
    \/ APR_start_process_return
    \/ APR_gather_done_callback
    \/ APR_main_resume
    \/ APR_check_processes
    \/ \E i \in 1..MaxListing : APR_timer(i)
    \/ \E ok \in BOOLEAN, now \in NowOf(HandleClass) : CallStart(ok, now)
    \/ \E now \in NowOf(HandleClass) : CallJoin(now)
    \/ WatchHandle

Spec == Init /\ [][Next]_vars

----------------------------------------------------------------------------
(* Properties.                                                             *)

Handles == 1..Len(processes)

NotStartedOf(cls) == handle_init(cls, <<>>).status

IsTerminal(h) == h.status \in Terminal(HandleClass)

\* position of a status in the lifecycle NotStarted -> Running -> terminal
Rank(st) ==
    IF st = NOT_STARTED THEN 0
    ELSE IF st = RUNNING THEN 1
    ELSE 2

\* C1: in a run of AsyncRunner.main every handle is created NOT_STARTED, and
\* every change of a handle's status moves it exactly one position along
\* NOT_STARTED -> RUNNING -> {COMPLETED, FAILED, KILLED}: no status is taken
\* twice, none is skipped, and a terminal status is never left.
C1_StatusOrder ==
    [][entry = "AsyncRunner" =>
          /\ Len(processes) = 0 =>
                \A i \in 1..Len(processes') : processes'[i].status = NOT_STARTED
          /\ \A i \in Handles :
                /\ i \in 1..Len(processes')
                /\ processes'[i].status # processes[i].status =>
                      Rank(processes'[i].status) = Rank(processes[i].status) + 1
      ]_vars

\* a run in which one handle is terminal while a later one is still running
C1_Witness ==
    /\ entry = "AsyncRunner"
    /\ \E i, j \in Handles :
          /\ i < j
          /\ processes[i].status = COMPLETED
          /\ processes[j].status = RUNNING

\* C2: fan-out before fan-in.  In AsyncRunner.main, once the first join() is
\* due every handle has had start() issued, and all handles are RUNNING when
\* the first join() is called; in AsyncProcessRunner.main, whenever a
\* check_processes task is about to observe or has observed its handle, the
\* start() of every handle has been issued and every handle is "Running".
C2_FanOutBeforeFanIn ==
    /\ (entry = "AsyncRunner" /\ (pc = "join" \/ last.op = "join")) =>
          /\ \A i \in Handles : processes[i].status # NOT_STARTED
          /\ \A i \in Handles : proc[i].state # "initial"
          /\ (pc = "join" /\ idx = 1) =>
                \A i \in Handles : processes[i].status = RUNNING
    /\ (entry = "AsyncProcessRunner" /\ pc = "gather"
          /\ (sleeping # <<>> \/ (ready # <<>> /\ Head(ready).kind = "check"))) =>
          /\ \A i \in Handles : task.start[i] # "created"
          /\ \A i \in Handles : processes[i].status = "Running"

\* two handles, and a check_processes task has made its first observation
C2_Witness ==
    /\ entry = "AsyncProcessRunner"
    /\ Len(processes) = 2
    /\ Len(sleeping) >= 1
    /\ \A i \in Handles : proc[i].state # "initial"

\* C3: whenever AsyncRunner.main has returned, every handle of the registry
\* has status COMPLETED.
C3_ReturnedAllCompleted ==
    (entry = "AsyncRunner" /\ outcome = "returned") =>
        \A i \in Handles : processes[i].status = COMPLETED

\* main has returned over three handles, one of whose processes failed
C3_Witness ==
    /\ entry = "AsyncRunner"
    /\ outcome = "returned"
    /\ Len(processes) = 3
    /\ \E i \in Handles : proc[i].exitcode = EXIT_FAIL

\* C4 (as claimed): the monitor loop stops if and only if every handle is
\* terminal: no check_processes task has stopped while a handle is not
\* terminal, and a check_processes task that has observed its handle terminal
\* (and logged the outcome) with every handle terminal is no longer running.
C4_MonitorStopsIffTerminal ==
    entry \in {"AsyncProcessRunner", "Custom_Process"} =>
        /\ (\E i \in 1..Len(task.check) : task.check[i] # "pending") =>
              \A i \in Handles : IsTerminal(processes[i])
        /\ \A i \in 1..Len(task.check) :
              (logged[i] >= 1 /\ \A j \in Handles : IsTerminal(processes[j])) =>
                  task.check[i] # "pending"

\* C5 (as claimed, in the form a finite run decides): once AsyncRunner.main
\* has ended and every spawned process has exited, main has returned and
\* every handle has a terminal status.
C5_RunEndsAllTerminal ==
    (entry = "AsyncRunner" /\ pc = "done"
       /\ \A i \in Handles : proc[i].state # "started") =>
        /\ outcome = "returned"
        /\ \A i \in Handles : IsTerminal(processes[i])

\* the status the handle should take for an exit code
StatusFor(cls, code) ==
    IF cls = "CustomProcess"
    THEN (IF code = EXIT_OK THEN COMPLETED
          ELSE IF code < 0 THEN KILLED ELSE FAILED)
    ELSE (IF code = EXIT_OK THEN "Completed"
          ELSE IF code < 0 THEN "Killed" ELSE "Failed")

\* C6 (as claimed): when join() has returned, the handle's status tells how
\* its process ended: Completed for a success code, Failed for a non-success
\* code, Killed for a signal.
C6_JoinStatusByOutcome ==
    (last.op = "join" /\ last.exc = "None") =>
        processes[last.i].status = StatusFor(HandleClass, proc[last.i].exitcode)

\* C7: a caller that calls start() and then join() on a NOT_STARTED
\* CustomProcess finds it RUNNING once start() has returned, and COMPLETED
\* once join() has returned, whatever the exit code of the process.
C7_StartThenJoin ==
    entry = "CustomProcess" =>
        /\ (calls = 1 /\ last.op = "start" /\ last.exc = "None") =>
              processes[1].status = RUNNING
        /\ (calls = 2 /\ last.op = "join" /\ last.exc = "None") =>
              processes[1].status = COMPLETED

\* start() and then join() have both returned
C7_Witness ==
    /\ entry = "CustomProcess"
    /\ calls = 2
    /\ last.op = "join"
    /\ last.exc = "None"
    /\ last.pre = RUNNING
    /\ proc[1].state = "stopped"

\* C8 (as claimed): a start() on a handle whose process was already started,
\* and a join() on a handle not yet started, fail: the call raises and the
\* handle's status is what it was.
C8_OutOfOrderFails ==
    (entry \in HandleCallers
       /\ \/ last.op = "start" /\ last.pre_state # "initial"
          \/ last.op = "join" /\ last.pre = NotStartedOf(HandleClass)) =>
        /\ last.exc # "None"
        /\ last.post = last.pre

\* C9 (as claimed): a supervisor run that discovered nothing has aborted
\* with a non-zero exit; it never ends any other way with an empty registry.
C9_NoWorkloadsAborts ==
    (entry \in Runners /\ pc = "done" /\ Len(processes) = 0) =>
        outcome = "exit(-1)"

\* the listing holds only workload .py files and the marker "__init__.py"
MarkerListing(l) ==
    /\ l.found
    /\ \E k \in 1..Len(l.files) : l.files[k].name = INIT_PY
    /\ \A k \in 1..Len(l.files) :
          l.files[k].name = INIT_PY \/ (IsPyFile(l.files[k]) /\ l.files[k].has_main)

\* the workload files of a listing, in listing order
Workloads(l) == SelectSeq(l.files, LAMBDA e : IsPyFile(e) /\ e.name # INIT_PY)

\* C10 (as claimed): over workload files plus the marker at any position,
\* discovery yields exactly the workload files: one handle per workload
\* file, none dropped.
C10_MarkerOnlyDropped ==
    (entry = "AsyncRunner" /\ pc # "create" /\ MarkerListing(listing)) =>
        /\ Len(processes) = Len(Workloads(listing))
        /\ \A k \in 1..Len(Workloads(listing)) :
              \E i \in Handles :
                 processes[i].name =
                    SUB_PROCESS_DIR \o <<".">> \o StripExt(Workloads(listing)[k].name)

\* the last component of a dotted module name
LastPart(name) ==
    LET dots == { k \in 1..Len(name) : name[k] = "." }
    IN  IF dots = {} THEN name
        ELSE SubSeq(name, (CHOOSE k \in dots : \A j \in dots : j <= k) + 1, Len(name))

\* C11: no reference produced by AsyncRunner.get_sub_processes comes from a
\* file whose name is in FILES_TO_IGNORE: for every handle built from the
\* references, the file name of its module is not an ignored name.
C11_NoIgnoredReference ==
    (entry = "AsyncRunner" /\ pc # "create") =>
        \A i \in Handles :
            ~InList(LastPart(processes[i].name) \o PY, FILES_TO_IGNORE)

\* the marker was in the listing, ahead of a workload file, and references
\* were produced
C11_Witness ==
    /\ entry = "AsyncRunner"
    /\ pc # "create"
    /\ Len(processes) >= 2
    /\ \E k \in 1..Len(listing.files) :
          /\ listing.files[k].name = INIT_PY
          /\ k < Len(listing.files)

\* C12: in AsyncRunner.main the failure of a workload (a non-success exit
\* code, which is also what a raising entry point gives) never aborts the
\* supervision: the join() of a failed workload returns normally and main
\* goes on, main is only ever left early by a start() that raised, and when
\* main has returned every handle was started, awaited to its exit and has a
\* terminal status.
C12_FailureIsolated ==
    entry = "AsyncRunner" =>
        /\ (last.op = "join" /\ proc[last.i].exitcode # EXIT_OK) =>
              (last.exc = "None" /\ outcome # "raised")
        /\ outcome = "raised" => (last.op = "start" /\ last.exc = "OSError")
        /\ outcome = "returned" =>
              \A j \in Handles :
                 proc[j].state = "stopped" /\ IsTerminal(processes[j])

\* main has returned although the first workload failed, its siblings not
C12_Witness ==
    /\ entry = "AsyncRunner"
    /\ outcome = "returned"
    /\ Len(processes) >= 2
    /\ proc[1].exitcode = EXIT_FAIL
    /\ \A j \in 2..Len(processes) : proc[j].exitcode = EXIT_OK

FailedOf(cls) == IF cls = "CustomProcess" THEN FAILED ELSE "Failed"

\* C13 (as claimed): when process.start() raises inside the start() of a
\* handle, that handle's status becomes Failed and the run goes on: the
\* supervisor is not left by the exception, neither raised out of
\* AsyncRunner.main nor turned into the exit() of AsyncProcessRunner.main.
C13_SpawnFailureIsolated ==
    entry \in Runners =>
        /\ (last.op = "start" /\ last.exc = "OSError") =>
              processes[last.i].status = FailedOf(HandleClass)
        /\ outcome \notin {"raised", "exit()"}

\* C14: every Custom_Process handle whose status is terminal has
\* run_duration = end_time - start_time, run_duration >= 0 and
\* start_time <= end_time, after any sequence of start() and join() calls.
C14_DurationOfTerminal ==
    entry \in {"AsyncProcessRunner", "Custom_Process"} =>
        \A i \in Handles :
            IsTerminal(processes[i]) =>
                /\ processes[i].run_duration =
                      processes[i].end_time - processes[i].start_time
                /\ processes[i].run_duration >= 0
                /\ processes[i].start_time <= processes[i].end_time

\* a handle joined a second time, after a second start(), with time having
\* passed between its start and its end
C14_Witness ==
    /\ entry = "Custom_Process"
    /\ calls >= 3
    /\ processes[1].status = "Completed"
    /\ processes[1].run_duration > 0

\* C15 (as claimed): terminal statuses are absorbing: a handle whose status
\* is terminal keeps that status in every later step, whatever start() or
\* join() is called on it.
C15_TerminalAbsorbing ==
    [][\A i \in Handles :
          IsTerminal(processes[i]) =>
              (i \in 1..Len(processes') /\ processes'[i].status = processes[i].status)
      ]_vars

\* C16 (as claimed): check_processes logs the outcome of a handle it has
\* observed terminal exactly once: no handle ever has a second outcome line.
C16_OutcomeLoggedOnce ==
    entry \in {"AsyncProcessRunner", "Custom_Process"} =>
        \A i \in 1..Len(logged) : logged[i] <= 1

\* C17 (as claimed): in AsyncRunner.main the workload whose process exits
\* first is reported first: whenever the handle of a workload is terminal,
\* so is the handle of every workload whose process exited before it,
\* whatever their positions in the registry.
C17_FirstFinishedFirstReported ==
    entry = "AsyncRunner" =>
        \A a, b \in Handles :
            (/\ proc[a].order > 0
             /\ proc[b].order > 0
             /\ proc[a].order < proc[b].order
             /\ IsTerminal(processes[b])) => IsTerminal(processes[a])

\* C18 (as claimed): the timestamps of a Custom_Process handle are set once
\* each: no step changes start_time once start() has been called on the
\* handle, and no step changes end_time once join() has made it terminal.
C18_TimestampsSetOnce ==
    [][(entry \in {"AsyncProcessRunner", "Custom_Process"}) =>
          (\A i \in Handles :
              /\ (processes[i].status # "Not Started" =>
                     processes'[i].start_time = processes[i].start_time)
              /\ (IsTerminal(processes[i]) =>
                     processes'[i].end_time = processes[i].end_time))
      ]_vars

\* C19 (as claimed): a Custom_Process handle whose status is "Not Started"
\* has no start_time and no end_time: neither field holds an instant.
C19_NotStartedHasNoTimes ==
    entry \in {"AsyncProcessRunner", "Custom_Process"} =>
        \A i \in Handles :
            processes[i].status = "Not Started" =>
                /\ processes[i].start_time \notin Int
                /\ processes[i].end_time \notin Int

\* the names of a registry, in registry order
RegistryNames(ps) == [k \in 1..Len(ps) |-> ps[k].name]

\* the references discovery returns for the run's listing
Discovered ==
    IF entry = "AsyncRunner" THEN get_sub_processes(listing)
    ELSE APR_get_sub_processes(listing)

\* C20: the step that builds the registry leaves one not-started handle per
\* discovered reference, in discovery order; and once a start() has been
\* issued (some handle has left its initial status) no step adds a handle
\* to the registry, removes one from it or reorders it.
C20_RegistryBuiltOnce ==
    [][/\ (entry \in Runners /\ pc = "create" /\ pc' # "create") =>
              /\ RegistryNames(processes') = RegistryNames(Discovered)
              /\ \A k \in 1..Len(processes') :
                     processes'[k].status = NotStartedOf(HandleClass)
       /\ (\E i \in Handles : processes[i].status # NotStartedOf(HandleClass)) =>
              RegistryNames(processes') = RegistryNames(processes)
      ]_vars

\* three handles built from three references, all started
C20_Witness ==
    /\ entry = "AsyncRunner"
    /\ pc = "join"
    /\ Len(processes) = 3
    /\ RegistryNames(processes) = RegistryNames(Discovered)

C22_CompletedPrefix ==
    entry = "AsyncRunner" =>
        /\ \A i, j \in Handles :
               (i < j /\ processes[j].status = COMPLETED) =>
                   processes[i].status = COMPLETED
        /\ (pc = "join" /\ proc[idx].state = "started") =>
               /\ \A j \in Handles : j >= idx => processes[j].status = RUNNING
               /\ \A j \in Handles : j < idx => processes[j].status = COMPLETED

\* main waits for the first workload while the last one has already exited
\* and is still RUNNING
C22_Witness ==
    /\ entry = "AsyncRunner"
    /\ pc = "join"
    /\ Len(processes) = 3
    /\ idx = 2
    /\ proc[2].state = "started"
    /\ proc[3].state = "stopped"
    /\ processes[1].status = COMPLETED
    /\ processes[3].status = RUNNING

====
